---- MODULE Spec2Model ----
(***************************************************************************)
(* Model of skimage/measure/segmentation_metrics.py: the label normaliser  *)
(* (relabel_from_one), the contingency table builder, the Rand statistics  *)
(* and the variation-of-information entry points.                          *)
(*                                                                         *)
(* A label field is modelled by its ravelled form, a sequence of           *)
(* non-negative integers indexed by position 1..n, together with its       *)
(* shape.  numpy arrays that are indexed by label (maps, tables) are       *)
(* modelled as functions on 0..n-1, so that an index outside the domain    *)
(* is numpy's IndexError.                                                  *)
(***************************************************************************)
EXTENDS Integers, Sequences, FiniteSets, TLC

\* Largest number of positions of a one-dimensional label field.
MaxLen == 3
\* Largest label of the fields handed to the two-field metrics.
MaxLabel == 2
\* Largest label of the fields handed to relabel_from_one.
MaxRawLabel == 4
\* Largest extent of either axis of a two-dimensional label field.
MaxDim == 2

VARIABLES
    im_true,      \* first field of a two-field call (im1 of rand_index, compare_vi)
    im_test,      \* second field of a two-field call (im2)
    shape,        \* the shape of im_true
    shape_test,   \* the shape of im_test
    label_field,  \* the argument of relabel_from_one
    arg,          \* the scalar argument of the call (size_threshold, npoints)
    pc,           \* "start", or the name of the function that has returned
    result        \* what that function returned

vars == <<im_true, im_test, shape, shape_test, label_field, arg, pc, result>>

None == <<>>

(***************************************************************************)
(* Helpers standing for numpy primitives.                                  *)
(***************************************************************************)
RECURSIVE SeqSum(_)
SeqSum(s) == IF s = <<>> THEN 0 ELSE s[1] + SeqSum(Tail(s))

SetMin(S) == CHOOSE x \in S : \A y \in S : x <= y
SetMax(S) == CHOOSE x \in S : \A y \in S : y <= x

RECURSIVE SortedSeq(_)
SortedSeq(S) == IF S = {} THEN <<>>
                ELSE <<SetMin(S)>> \o SortedSeq(S \ {SetMin(S)})

\* np.unique(ar): the sorted distinct values of ar.
unique(ar) == SortedSeq({ar[p] : p \in DOMAIN ar})

\* A numpy array (0-indexed) holding the elements of the sequence s.
Array(s) == [i \in 0..(Len(s) - 1) |-> s[i + 1]]

\* The label fields of n positions with labels 0..maxLabel.
Fields(n, maxLabel) == [1..n -> 0..maxLabel]

(***************************************************************************)
(* contingency_table(im_true, im_test)                                     *)
(***************************************************************************)
\* Mutant: only background of the test field is masked.
contingency_table_test_mask_only(true_r, test_r) ==
    LET data == [p \in DOMAIN test_r |-> IF test_r[p] = 0 THEN 0 ELSE 1]
        nrows == SetMax({test_r[p] : p \in DOMAIN test_r}) + 1
        ncols == SetMax({true_r[p] : p \in DOMAIN true_r}) + 1
    IN  [ij \in (0..(nrows - 1)) \X (0..(ncols - 1)) |->
            SeqSum([p \in DOMAIN test_r |->
                      IF test_r[p] = ij[1] /\ true_r[p] = ij[2]
                      THEN data[p] ELSE 0])]

\* The table as a function on (row, column) = (test label, true label); the
\* coo -> csr conversion sums the data of duplicate coordinates, and the
\* matrix is sized by the largest index on each axis.
contingency_table(true_r, test_r) ==
    LET ignored == [p \in DOMAIN test_r |-> test_r[p] = 0 \/ true_r[p] = 0]
        data == [p \in DOMAIN true_r |-> IF ignored[p] THEN 0 ELSE 1]
        nrows == SetMax({test_r[p] : p \in DOMAIN test_r}) + 1
        ncols == SetMax({true_r[p] : p \in DOMAIN true_r}) + 1
    IN  [ij \in (0..(nrows - 1)) \X (0..(ncols - 1)) |->
            SeqSum([p \in DOMAIN test_r |->
                      IF test_r[p] = ij[1] /\ true_r[p] = ij[2]
                      THEN data[p] ELSE 0])]

Rows(cont) == {ij[1] : ij \in DOMAIN cont}
Cols(cont) == {ij[2] : ij \in DOMAIN cont}

\* cont.sum(axis=1)[i] and cont.sum(axis=0)[j].
RowSum(cont, i) == SeqSum([k \in 1..Cardinality(Cols(cont)) |-> cont[<<i, k - 1>>]])
ColSum(cont, j) == SeqSum([k \in 1..Cardinality(Rows(cont)) |-> cont[<<k - 1, j>>]])

\* cont.sum()
TableSum(cont) == SeqSum([k \in 1..Cardinality(Rows(cont)) |-> RowSum(cont, k - 1)])

(***************************************************************************)
(* rand_values(cont_table)                                                 *)
(***************************************************************************)
\* Twice the four values, before the halving: sum1 - n, sum2 - sum1,
\* sum3 - sum1 and sum1 + n**2 - sum2 - sum3.
rand_numerators(cont) ==
    LET n == TableSum(cont)
        sum1 == SeqSum([k \in 1..Cardinality(Rows(cont)) |->
                   SeqSum([l \in 1..Cardinality(Cols(cont)) |->
                             cont[<<k - 1, l - 1>>] * cont[<<k - 1, l - 1>>]])])
        sum2 == SeqSum([k \in 1..Cardinality(Rows(cont)) |->
                   RowSum(cont, k - 1) * RowSum(cont, k - 1)])
        sum3 == SeqSum([l \in 1..Cardinality(Cols(cont)) |->
                   ColSum(cont, l - 1) * ColSum(cont, l - 1)])
    IN  [a |-> sum1 - n, b |-> sum2 - sum1, c |-> sum3 - sum1,
         d |-> sum1 + n * n - sum2 - sum3]

\* Mutant: the n**2 term of d is written as n.
rand_values_d_without_square(cont) ==
    LET n == TableSum(cont)
        t == rand_numerators(cont)
    IN  [a |-> t.a \div 2, b |-> t.b \div 2, c |-> t.c \div 2,
         d |-> (t.d - n * n + n) \div 2]

\* The four numerators are even (NumeratorsEven below), so the float division
\* by 2 is exact and is the integer division.
rand_values(cont) ==
    LET t == rand_numerators(cont)
    IN  [a |-> t.a \div 2, b |-> t.b \div 2, c |-> t.c \div 2, d |-> t.d \div 2]

(***************************************************************************)
(* rand_index(im1, im2) and adj_rand_index(im1, im2).  A float quotient is *)
(* kept as its numerator and denominator: x/0 is NaN when x = 0 and        *)
(* +-inf otherwise, and numpy returns it without raising.                  *)
(***************************************************************************)
\* Mutant: the agreeing pairs are taken to be a and b.
rand_index_a_plus_b(im1, im2) ==
    LET cont == contingency_table(im1, im2)
        v == rand_values(cont)
    IN  [num |-> v.a + v.b, den |-> v.a + v.b + v.c + v.d]

\* Mutant: the pairs that differ in both fields are left out of the total.
rand_index_den_without_d(im1, im2) ==
    LET cont == contingency_table(im1, im2)
        v == rand_values(cont)
    IN  [num |-> v.a + v.d, den |-> v.a + v.b + v.c]

rand_index(im1, im2) ==
    LET cont == contingency_table(im1, im2)
        v == rand_values(cont)
    IN  [num |-> v.a + v.d, den |-> v.a + v.b + v.c + v.d]

\* Mutant: the expected-index term is left out of the denominator.
adj_rand_index_no_expected_in_den(im1, im2) ==
    LET cont == contingency_table(im1, im2)
        v == rand_values(cont)
        nk == v.a + v.b + v.c + v.d
        e == (v.a + v.b) * (v.a + v.c) + (v.c + v.d) * (v.b + v.d)
    IN  [num |-> nk * (v.a + v.d) - e, den |-> nk * nk]

adj_rand_index(im1, im2) ==
    LET cont == contingency_table(im1, im2)
        v == rand_values(cont)
        nk == v.a + v.b + v.c + v.d
        e == (v.a + v.b) * (v.a + v.c) + (v.c + v.d) * (v.b + v.d)
    IN  [num |-> nk * (v.a + v.d) - e, den |-> nk * nk - e]

IsNaN(q) == q.den = 0 /\ q.num = 0
IsOne(q) == q.den # 0 /\ q.num = q.den

(***************************************************************************)
(* The two-field metrics on one-dimensional fields (ravel() makes every    *)
(* field one-dimensional before the table is built).                       *)
(***************************************************************************)
Init ==
    /\ \E n \in 1..MaxLen :
          /\ shape = <<n>>
          /\ shape_test = <<n>>
          /\ im_true \in Fields(n, MaxLabel)
          /\ im_test \in Fields(n, MaxLabel)
    /\ label_field = None
    /\ arg = None
    /\ pc = "start"
    /\ result = None

ContingencyTable ==
    /\ pc = "start"
    /\ result' = contingency_table(im_true, im_test)
    /\ pc' = "contingency_table"
    /\ UNCHANGED <<im_true, im_test, shape, shape_test, label_field, arg>>

\* rand_values on the table of the two fields, as rand_index calls it.
RandValues ==
    /\ pc = "start"
    /\ result' = rand_values(contingency_table(im_true, im_test))
    /\ pc' = "rand_values"
    /\ UNCHANGED <<im_true, im_test, shape, shape_test, label_field, arg>>

RandIndex ==
    /\ pc = "start"
    /\ result' = rand_index(im_true, im_test)
    /\ pc' = "rand_index"
    /\ UNCHANGED <<im_true, im_test, shape, shape_test, label_field, arg>>

AdjRandIndex ==
    /\ pc = "start"
    /\ result' = adj_rand_index(im_true, im_test)
    /\ pc' = "adj_rand_index"
    /\ UNCHANGED <<im_true, im_test, shape, shape_test, label_field, arg>>

Next == ContingencyTable \/ RandValues \/ RandIndex \/ AdjRandIndex

Spec == Init /\ [][Next]_vars

(***************************************************************************)
(* Reference quantities, by direct enumeration of positions and pairs.     *)
(***************************************************************************)
\* The positions that are non-background in both fields.
Valid == {p \in DOMAIN im_test : im_test[p] # 0 /\ im_true[p] # 0}
\* The unordered pairs of such positions.
Pairs == {pq \in Valid \X Valid : pq[1] < pq[2]}
SameTest(pq) == im_test[pq[1]] = im_test[pq[2]]
SameTrue(pq) == im_true[pq[1]] = im_true[pq[2]]
Count(S) == Cardinality(S)

\* The halved numerators of rand_values are integers.
NumeratorsEven ==
    LET t == rand_numerators(contingency_table(im_true, im_test))
    IN  t.a % 2 = 0 /\ t.b % 2 = 0 /\ t.c % 2 = 0 /\ t.d % 2 = 0

\* C1: the table returned by contingency_table(im_true, im_test) holds in
\* cell [i, j], i >= 1 and j >= 1, the number of positions with test label i
\* and true label j; row 0 and column 0 hold only zeros; and the cells sum
\* to the number of positions that are non-zero in both fields.
C1_ContingencyCounts ==
    pc = "contingency_table" =>
        /\ \A ij \in DOMAIN result :
              IF ij[1] >= 1 /\ ij[2] >= 1
              THEN result[ij] = Count({p \in DOMAIN im_test :
                                         im_test[p] = ij[1] /\ im_true[p] = ij[2]})
              ELSE result[ij] = 0
        /\ \A p \in Valid : <<im_test[p], im_true[p]>> \in DOMAIN result
        /\ TableSum(result) = Count(Valid)

\* A table with a cell counting two positions, built from fields in which a
\* position is background in one field only.
C1_Witness ==
    /\ pc = "contingency_table"
    /\ \E ij \in DOMAIN result : result[ij] >= 2
    /\ \E p \in DOMAIN im_test : (im_true[p] = 0) # (im_test[p] = 0)

\* C2: with at least two positions non-zero in both fields, rand_index is
\* the fraction of the unordered pairs of such positions on which the two
\* labelings agree (same in both or different in both), and lies in [0, 1].
C2_RandIndexIsAgreeingFraction ==
    (pc = "rand_index" /\ Count(Valid) >= 2) =>
        LET agree == {pq \in Pairs : SameTest(pq) <=> SameTrue(pq)}
        IN  /\ result.den # 0
            /\ result.num * Count(Pairs) = Count(agree) * result.den
            /\ 0 <= result.num /\ result.num <= result.den

\* A Rand index strictly between 0 and 1.
C2_Witness ==
    /\ pc = "rand_index"
    /\ Count(Valid) >= 2
    /\ 0 < result.num /\ result.num < result.den

\* C3: the four values of rand_values are non-negative and sum to
\* n*(n-1)/2, n the number of positions non-background in both fields.
C3_RandValuesPartition ==
    pc = "rand_values" =>
        /\ result.a >= 0 /\ result.b >= 0 /\ result.c >= 0 /\ result.d >= 0
        /\ 2 * (result.a + result.b + result.c + result.d)
              = Count(Valid) * (Count(Valid) - 1)

\* Values with pairs that differ in both fields and pairs that do not.
C3_Witness ==
    /\ pc = "rand_values"
    /\ result.d > 0
    /\ result.a + result.b + result.c > 0

\* C4: rand_values returns a = pairs that share a label in both fields,
\* b = pairs with different labels in both fields, c = pairs that share a
\* label in the test field only, d = pairs that share a label in the true
\* field only.
C4_RandValuesMeaning ==
    pc = "rand_values" =>
        /\ result.a = Count({pq \in Pairs : SameTest(pq) /\ SameTrue(pq)})
        /\ result.b = Count({pq \in Pairs : ~SameTest(pq) /\ ~SameTrue(pq)})
        /\ result.c = Count({pq \in Pairs : SameTest(pq) /\ ~SameTrue(pq)})
        /\ result.d = Count({pq \in Pairs : ~SameTest(pq) /\ SameTrue(pq)})

\* What the code returns: b = same in the test field only, c = same in the
\* true field only, d = different in both.
RandValuesAsComputed ==
    pc = "rand_values" =>
        /\ result.a = Count({pq \in Pairs : SameTest(pq) /\ SameTrue(pq)})
        /\ result.b = Count({pq \in Pairs : SameTest(pq) /\ ~SameTrue(pq)})
        /\ result.c = Count({pq \in Pairs : ~SameTest(pq) /\ SameTrue(pq)})
        /\ result.d = Count({pq \in Pairs : ~SameTest(pq) /\ ~SameTrue(pq)})

\* The non-zero positions of a field x, and its pairs.
NonZero(x) == {p \in DOMAIN x : x[p] # 0}
HasSamePair(x) == \E p, q \in NonZero(x) : p < q /\ x[p] = x[q]
HasDiffPair(x) == \E p, q \in NonZero(x) : p < q /\ x[p] # x[q]

\* C5 as stated: adj_rand_index(x, x) is 1.0 for every label field x.
C5_AdjRandSelfAlwaysOne ==
    (pc = "adj_rand_index" /\ im_true = im_test) => IsOne(result)

\* C5 as amended: adj_rand_index(x, x) is 1.0 when x has a pair of non-zero
\* positions with the same label and a pair with different labels, and is
\* NaN (0/0) for every other x: a single segment, all labels distinct, fewer
\* than two non-zero positions.
C5_AdjRandSelfOneOrNaN ==
    (pc = "adj_rand_index" /\ im_true = im_test) =>
        IF HasSamePair(im_true) /\ HasDiffPair(im_true)
        THEN IsOne(result)
        ELSE IsNaN(result)

\* A self-comparison of a field with two segments, one of two positions.
C5_Witness ==
    /\ pc = "adj_rand_index"
    /\ im_true = im_test
    /\ HasSamePair(im_true) /\ HasDiffPair(im_true)
    /\ IsOne(result)

\* C6: rand_index(x, x) is 1.0 for every x with at least two distinct
\* non-zero labels.
C6_RandSelfIsOne ==
    (/\ pc = "rand_index"
     /\ im_true = im_test
     /\ Count({im_true[p] : p \in NonZero(im_true)}) >= 2) => IsOne(result)

\* A self-comparison of a field with two distinct non-zero labels and a
\* background position.
C6_Witness ==
    /\ pc = "rand_index"
    /\ im_true = im_test
    /\ Count({im_true[p] : p \in NonZero(im_true)}) >= 2
    /\ \E p \in DOMAIN im_true : im_true[p] = 0
    /\ IsOne(result)

(***************************************************************************)
(* relabel_from_one(label_field)                                           *)
(***************************************************************************)
\* Mutant: the fast path compares the maximum with len(labels), background
\* included.
relabel_from_one_counts_background(lf) ==
    LET labels == unique(lf)
        IsLabel(v) == v # 0
        labels0 == SelectSeq(labels, IsLabel)
        m == labels[Len(labels)]
    IN  IF m = Len(labels)
        THEN [relabeled |-> lf, forward_map |-> Array(labels),
              inverse_map |-> Array(labels)]
        ELSE LET forward_map ==
                     [v \in 0..m |->
                        IF \E k \in DOMAIN labels0 : labels0[k] = v
                        THEN CHOOSE k \in DOMAIN labels0 : labels0[k] = v
                        ELSE 0]
                 inverse_map == IF \E k \in DOMAIN labels : labels[k] = 0
                                THEN labels ELSE <<0>> \o labels
             IN  [relabeled |-> [p \in DOMAIN lf |-> forward_map[lf[p]]],
                  forward_map |-> forward_map,
                  inverse_map |-> Array(inverse_map)]

\* Mutant: a single compaction pass, which lowers by one every label that
\* has an unused positive value below it.
relabel_from_one_single_pass(lf) ==
    LET labels == unique(lf)
        IsLabel(v) == v # 0
        labels0 == SelectSeq(labels, IsLabel)
        m == labels[Len(labels)]
    IN  IF m = Len(labels0)
        THEN [relabeled |-> lf, forward_map |-> Array(labels),
              inverse_map |-> Array(labels)]
        ELSE LET used == {labels0[k] : k \in DOMAIN labels0}
                 forward_map ==
                     [v \in 0..m |->
                        IF v \notin used THEN 0
                        ELSE IF \E u \in 1..v : u \notin used THEN v - 1 ELSE v]
                 inverse_map == IF \E k \in DOMAIN labels : labels[k] = 0
                                THEN labels ELSE <<0>> \o labels
             IN  [relabeled |-> [p \in DOMAIN lf |-> forward_map[lf[p]]],
                  forward_map |-> forward_map,
                  inverse_map |-> Array(inverse_map)]

\* labels.max() is the last element of the sorted labels.  On the fast path
\* the unique-value array is returned as both maps.  Otherwise
\* forward_map[labels0] = arange(1, len(labels0) + 1) writes k at index
\* labels0[k] of a zero array of length m + 1.
relabel_from_one(lf) ==
    LET labels == unique(lf)
        IsLabel(v) == v # 0
        labels0 == SelectSeq(labels, IsLabel)
        m == labels[Len(labels)]
    IN  IF m = Len(labels0)
        THEN [relabeled |-> lf, forward_map |-> Array(labels),
              inverse_map |-> Array(labels)]
        ELSE LET forward_map ==
                     [v \in 0..m |->
                        IF \E k \in DOMAIN labels0 : labels0[k] = v
                        THEN CHOOSE k \in DOMAIN labels0 : labels0[k] = v
                        ELSE 0]
                 inverse_map == IF \E k \in DOMAIN labels : labels[k] = 0
                                THEN labels ELSE <<0>> \o labels
             IN  [relabeled |-> [p \in DOMAIN lf |-> forward_map[lf[p]]],
                  forward_map |-> forward_map,
                  inverse_map |-> Array(inverse_map)]

InitRelabel ==
    /\ \E n \in 1..MaxLen : label_field \in Fields(n, MaxRawLabel)
    /\ im_true = None
    /\ im_test = None
    /\ shape = None
    /\ shape_test = None
    /\ arg = None
    /\ pc = "start"
    /\ result = None

RelabelFromOne ==
    /\ pc = "start"
    /\ result' = relabel_from_one(label_field)
    /\ pc' = "relabel_from_one"
    /\ UNCHANGED <<im_true, im_test, shape, shape_test, label_field, arg>>

\* relabel_from_one(relabel_from_one(x)[0]): result keeps both calls' returns.
RelabelAgain ==
    /\ pc = "relabel_from_one"
    /\ result' = <<result, relabel_from_one(result.relabeled)>>
    /\ pc' = "relabel_again"
    /\ UNCHANGED <<im_true, im_test, shape, shape_test, label_field, arg>>

NextRelabel == RelabelFromOne \/ RelabelAgain

SpecRelabel == InitRelabel /\ [][NextRelabel]_vars

(***************************************************************************)
(* vi_tables(im1, im2), compare_split_vi and compare_vi.                   *)
(*                                                                         *)
(* vi_tables takes its first argument as the contingency table (cont =     *)
(* im1) and never reads im2.  A quantity of the form                       *)
(*     sum_k (c_k / total) * log2(r_k / c_k),   0 < c_k < r_k,             *)
(* is kept as the sequence of its terms <<c_k, r_k>>: every term is        *)
(* strictly positive, so the quantity is 0.0 exactly when there is no term.*)
(***************************************************************************)
\* -xlogx(c / r) for a conditional probability c / r: 0 * log2(0) is defined
\* as 0 and 1 * log2(1) is 0; any other probability gives a non-zero term.
xlogx(c, r) == IF c = 0 \/ c = r THEN <<>> ELSE << <<c, r>> >>

RECURSIVE Concat(_)
Concat(ss) == IF ss = <<>> THEN <<>> ELSE ss[1] \o Concat(Tail(ss))

\* The result is "error" when im1 is one-dimensional (pxy.sum(axis=1) has no
\* axis 1), "nan" when im1 sums to 0 (cont / 0.0), and otherwise the arrays
\* hxgy and hygx, indexed by column and by row of im1.
vi_tables(im1, im2, shp) ==
    IF Len(shp) # 2 THEN [kind |-> "error"]
    ELSE
    LET R == shp[1]
        C == shp[2]
        cont == [ij \in (0..(R - 1)) \X (0..(C - 1)) |-> im1[ij[1] * C + ij[2] + 1]]
        total == TableSum(cont)
        nzx == {i \in 0..(R - 1) : RowSum(cont, i) # 0}
        nzy == {j \in 0..(C - 1) : ColSum(cont, j) # 0}
        hygx == [i \in 0..(R - 1) |->
                   IF i \in nzx
                   THEN Concat([k \in 1..C |->
                                  IF (k - 1) \in nzy
                                  THEN xlogx(cont[<<i, k - 1>>], RowSum(cont, i))
                                  ELSE <<>>])
                   ELSE <<>>]
        hxgy == [j \in 0..(C - 1) |->
                   IF j \in nzy
                   THEN Concat([k \in 1..R |->
                                  IF (k - 1) \in nzx
                                  THEN xlogx(cont[<<k - 1, j>>], ColSum(cont, j))
                                  ELSE <<>>])
                   ELSE <<>>]
    IN  IF total = 0 THEN [kind |-> "nan"]
        ELSE [kind |-> "value", hxgy |-> hxgy, hygx |-> hygx]

\* np.array([hygx.sum(), hxgy.sum()])
compare_split_vi(im1, im2, shp) ==
    LET t == vi_tables(im1, im2, shp)
    IN  IF t.kind # "value" THEN t
        ELSE [kind |-> "value",
              sv |-> << Concat([k \in 1..shp[1] |-> t.hygx[k - 1]]),
                        Concat([k \in 1..shp[2] |-> t.hxgy[k - 1]]) >>]

\* np.dot(weights, compare_split_vi(im1, im2)) with the default weights (1, 1).
compare_vi(im1, im2, shp) ==
    LET s == compare_split_vi(im1, im2, shp)
    IN  IF s.kind # "value" THEN s
        ELSE [kind |-> "value", v |-> s.sv[1] \o s.sv[2]]

Size(shp) == IF Len(shp) = 1 THEN shp[1] ELSE shp[1] * shp[2]

Shapes == {<<n>> : n \in 1..MaxLen} \cup {<<r, c>> : r \in 1..MaxDim, c \in 1..MaxDim}

InitVI ==
    /\ \E s \in Shapes :
          /\ shape = s
          /\ shape_test = s
          /\ im_true \in Fields(Size(s), MaxLabel)
          /\ im_test \in Fields(Size(s), MaxLabel)
    /\ label_field = None
    /\ arg = None
    /\ pc = "start"
    /\ result = None

CompareSplitVi ==
    /\ pc = "start"
    /\ result' = compare_split_vi(im_true, im_test, shape)
    /\ pc' = "compare_split_vi"
    /\ UNCHANGED <<im_true, im_test, shape, shape_test, label_field, arg>>

CompareVi ==
    /\ pc = "start"
    /\ result' = compare_vi(im_true, im_test, shape)
    /\ pc' = "compare_vi"
    /\ UNCHANGED <<im_true, im_test, shape, shape_test, label_field, arg>>

NextVI == CompareSplitVi \/ CompareVi

SpecVI == InitVI /\ [][NextVI]_vars

\* C7: for every label field x that is not all background,
\* compare_split_vi(x, x) returns (0.0, 0.0) and compare_vi(x, x) returns 0.0.
C7_ViSelfIsZero ==
    (im_true = im_test /\ NonZero(im_true) # {}) =>
        /\ pc = "compare_split_vi" =>
              (result.kind = "value" /\ result.sv = << <<>>, <<>> >>)
        /\ pc = "compare_vi" =>
              (result.kind = "value" /\ result.v = <<>>)

\* The two-dimensional self-comparisons alone: the entropies are those of x
\* read as a table, not of the table of x against x.
C7_ViSelfIsZero2D ==
    (im_true = im_test /\ NonZero(im_true) # {} /\ Len(shape) = 2
       /\ pc = "compare_split_vi") => result.sv = << <<>>, <<>> >>

\* The sorted distinct non-zero labels of a field.
NonZeroLabels(x) == {x[p] : p \in NonZero(x)}
Rank(v, x) == Cardinality({u \in NonZeroLabels(x) : u <= v})

\* C8: the first result of relabel_from_one(x) has the shape of x, is 0
\* exactly where x is 0, holds elsewhere the 1-based rank of x's label among
\* the sorted distinct non-zero labels, and so uses exactly the labels 1..K.
C8_RelabelIsRank ==
    pc = "relabel_from_one" =>
        /\ DOMAIN result.relabeled = DOMAIN label_field
        /\ \A p \in DOMAIN label_field :
              IF label_field[p] = 0
              THEN result.relabeled[p] = 0
              ELSE result.relabeled[p] = Rank(label_field[p], label_field)
        /\ NonZeroLabels(result.relabeled)
              = 1..Cardinality(NonZeroLabels(label_field))

\* A relabeling of a field with background and non-consecutive labels.
C8_Witness ==
    /\ pc = "relabel_from_one"
    /\ result.relabeled # label_field
    /\ \E p \in DOMAIN label_field : label_field[p] = 0
    /\ Cardinality(NonZeroLabels(label_field)) >= 2

\* C9: forward_map[x[p]] = relabeled[p] and inverse_map[relabeled[p]] = x[p]
\* at every position p, the fast path on dense labels without 0 included.
C9_MapRoundTrip ==
    pc = "relabel_from_one" =>
        \A p \in DOMAIN label_field :
            /\ label_field[p] \in DOMAIN result.forward_map
            /\ result.forward_map[label_field[p]] = result.relabeled[p]
            /\ result.relabeled[p] \in DOMAIN result.inverse_map
            /\ result.inverse_map[result.relabeled[p]] = label_field[p]

\* The round trip off the fast path without background, where it holds.
MapRoundTripElsewhere ==
    (/\ pc = "relabel_from_one"
     /\ ~ (/\ 0 \notin {label_field[p] : p \in DOMAIN label_field}
           /\ result.relabeled = label_field)) =>
        \A p \in DOMAIN label_field :
            /\ label_field[p] \in DOMAIN result.forward_map
            /\ result.forward_map[label_field[p]] = result.relabeled[p]
            /\ result.relabeled[p] \in DOMAIN result.inverse_map
            /\ result.inverse_map[result.relabeled[p]] = label_field[p]

\* C10: relabel_from_one(relabel_from_one(x)[0])[0] equals
\* relabel_from_one(x)[0] at every position.
C10_RelabelIdempotent ==
    pc = "relabel_again" => result[2].relabeled = result[1].relabeled

\* A second relabeling after a first one that changed the labels.
C10_Witness ==
    /\ pc = "relabel_again"
    /\ result[1].relabeled # label_field
    /\ Cardinality(NonZeroLabels(label_field)) >= 2

(***************************************************************************)
(* compare_raw_edit_distance(im_true, im_test, size_threshold)             *)
(*                                                                         *)
(* The axis sums of a scipy sparse matrix are numpy matrices, of shape     *)
(* (1, ncols) for axis=0 and (nrows, 1) for axis=1, and [1:] on a numpy    *)
(* matrix selects its rows from row 1 on.  A matrix is a function on       *)
(* (row, column).                                                          *)
(***************************************************************************)
\* Largest explicit size_threshold of a call, besides the default.
MaxThreshold == 1
\* The default of size_threshold.
DefaultSizeThreshold == 1000

\* _assert_compatible(im1, im2): passes exactly when the shapes are equal.
assert_compatible(shp1, shp2) == shp1 = shp2

RECURSIVE SumOver(_, _)
\* M.sum() over the entries whose index is in D.
SumOver(M, D) ==
    IF D = {} THEN 0
    ELSE LET ij == CHOOSE x \in D : TRUE
         IN  M[ij] + SumOver(M, D \ {ij})

\* r.sum(axis=0) and r.sum(axis=1).
SumAxis0(r) == [ij \in {0} \X Cols(r) |-> ColSum(r, ij[2])]
SumAxis1(r) == [ij \in Rows(r) \X {0} |-> RowSum(r, ij[1])]
\* M - 1, M[1:] and M.sum() of a numpy matrix.
MatrixMinus(M, k) == [ij \in DOMAIN M |-> M[ij] - k]
RowsFrom(M, k) == [ij \in {x \in DOMAIN M : x[1] >= k} |-> M[ij]]
MatrixSum(M) == SumOver(M, DOMAIN M)

\* Mutant: row 0, the background row, is not dropped from the row sums.
compare_raw_edit_distance_keeps_row0(t, s, size_threshold) ==
    LET test_r == relabel_from_one(s).relabeled
        true_r == relabel_from_one(t).relabeled
        r == contingency_table(true_r, test_r)
        kept == [ij \in DOMAIN r |-> IF r[ij] <= size_threshold THEN 0 ELSE r[ij]]
        ones == [ij \in DOMAIN r |-> IF kept[ij] # 0 THEN kept[ij] \div kept[ij] ELSE 0]
    IN  [kind |-> "value",
         false_merges |-> MatrixSum(RowsFrom(MatrixMinus(SumAxis1(ones), 1), 0)),
         false_splits |-> MatrixSum(RowsFrom(MatrixMinus(SumAxis0(ones), 1), 1))]

\* Mutant: the surviving overlaps keep their sizes instead of counting for 1.
compare_raw_edit_distance_counts_voxels(t, s, size_threshold) ==
    LET test_r == relabel_from_one(s).relabeled
        true_r == relabel_from_one(t).relabeled
        r == contingency_table(true_r, test_r)
        kept == [ij \in DOMAIN r |-> IF r[ij] <= size_threshold THEN 0 ELSE r[ij]]
    IN  [kind |-> "value",
         false_merges |-> MatrixSum(RowsFrom(MatrixMinus(SumAxis1(kept), 1), 1)),
         false_splits |-> MatrixSum(RowsFrom(MatrixMinus(SumAxis0(kept), 1), 1))]

\* The body after _assert_compatible.  false_splits slices the one-row matrix
\* of column sums from row 1 on, false_merges the one-column matrix of row
\* sums.
compare_raw_edit_distance(t, s, size_threshold) ==
    LET test_r == relabel_from_one(s).relabeled
        true_r == relabel_from_one(t).relabeled
        r == contingency_table(true_r, test_r)
        kept == [ij \in DOMAIN r |-> IF r[ij] <= size_threshold THEN 0 ELSE r[ij]]
        ones == [ij \in DOMAIN r |-> IF kept[ij] # 0 THEN kept[ij] \div kept[ij] ELSE 0]
    IN  [kind |-> "value",
         false_merges |-> MatrixSum(RowsFrom(MatrixMinus(SumAxis1(ones), 1), 1)),
         false_splits |-> MatrixSum(RowsFrom(MatrixMinus(SumAxis0(ones), 1), 1))]

SizeThresholds == (0..MaxThreshold) \cup {DefaultSizeThreshold}

CompareRawEditDistance ==
    /\ pc = "start"
    /\ \E t \in SizeThresholds :
          /\ arg' = t
          /\ result' = IF assert_compatible(shape, shape_test)
                       THEN compare_raw_edit_distance(im_true, im_test, t)
                       ELSE [kind |-> "error"]
    /\ pc' = "compare_raw_edit_distance"
    /\ UNCHANGED <<im_true, im_test, shape, shape_test, label_field>>

NextEdit == CompareRawEditDistance

\* Equal-shaped one-dimensional fields, as for the Rand statistics.
SpecEdit == Init /\ [][NextEdit]_vars

\* C11: compare_raw_edit_distance(x, x, size_threshold=0) returns (0.0, 0.0)
\* for every label field x: dense or not, with or without background, all
\* background included.
C11_EditDistanceSelfIsZero ==
    (pc = "compare_raw_edit_distance" /\ im_true = im_test /\ arg = 0) =>
        result = [kind |-> "value", false_merges |-> 0, false_splits |-> 0]

\* A self-comparison at threshold 0 of a field with background and a label
\* that relabel_from_one changes.
C11_Witness ==
    /\ pc = "compare_raw_edit_distance"
    /\ im_true = im_test
    /\ arg = 0
    /\ \E p \in DOMAIN im_true : im_true[p] = 0
    /\ relabel_from_one(im_true).relabeled # im_true
    /\ result.kind = "value"

\* The number of positions with test label u and true label v.
Overlap(u, v) == Count({p \in DOMAIN im_test : im_test[p] = u /\ im_true[p] = v})
\* Over the test segments: the true segments each overlaps by more than the
\* threshold, minus 1; and the same over the true segments.
SumOverTestSegments(threshold) ==
    LET us == SortedSeq(NonZeroLabels(im_test))
    IN  SeqSum([k \in 1..Len(us) |->
           Count({v \in NonZeroLabels(im_true) : Overlap(us[k], v) > threshold}) - 1])
SumOverTrueSegments(threshold) ==
    LET vs == SortedSeq(NonZeroLabels(im_true))
    IN  SeqSum([k \in 1..Len(vs) |->
           Count({u \in NonZeroLabels(im_test) : Overlap(u, vs[k]) > threshold}) - 1])

\* C13: false_splits is the sum over the test segments, and false_merges the
\* symmetric sum over the true segments.
C13_EditDistanceSums ==
    pc = "compare_raw_edit_distance" =>
        /\ result.false_splits = SumOverTestSegments(arg)
        /\ result.false_merges = SumOverTrueSegments(arg)

\* What the code returns: the sum over the test segments as false_merges, and
\* the sum of an empty slice as false_splits.
EditDistanceAsComputed ==
    pc = "compare_raw_edit_distance" =>
        /\ result.false_merges = SumOverTestSegments(arg)
        /\ result.false_splits = 0

\* C18: both values returned by compare_raw_edit_distance are non-negative,
\* for every size_threshold >= 0.
C18_EditDistanceNonNegative ==
    pc = "compare_raw_edit_distance" =>
        /\ result.false_merges >= 0
        /\ result.false_splits >= 0

(***************************************************************************)
(* The end-to-end scenario: the ground truth [1,1,2,2,3,3] against every   *)
(* test field over its labels, the scenario's [1,1,1,2,2,3] among them.    *)
(***************************************************************************)
ScenarioTrue == <<1, 1, 2, 2, 3, 3>>
ScenarioTest == <<1, 1, 1, 2, 2, 3>>

InitScenario ==
    /\ im_true = ScenarioTrue
    /\ im_test \in [DOMAIN ScenarioTrue -> {ScenarioTrue[p] : p \in DOMAIN ScenarioTrue}]
    /\ shape = <<Len(ScenarioTrue)>>
    /\ shape_test = <<Len(ScenarioTrue)>>
    /\ label_field = None
    /\ arg = None
    /\ pc = "start"
    /\ result = None

SpecScenario == InitScenario /\ [][NextEdit]_vars

InScenario ==
    /\ pc = "compare_raw_edit_distance"
    /\ im_true = ScenarioTrue
    /\ im_test = ScenarioTest
    /\ arg = 0

NaN == [k |-> "nan"]
Inf(sgn) == [k |-> "inf", s |-> sgn]
Abs(x) == IF x < 0 THEN -x ELSE x
Sign(x) == IF x < 0 THEN -1 ELSE 1
RECURSIVE GCD(_, _)
GCD(x, y) == IF y = 0 THEN x ELSE GCD(y, x % y)
\* The float n / d for integers n and d # 0.
Fin(n, d) ==
    LET g == GCD(Abs(n), Abs(d))
    IN  [k |-> "fin", n |-> (Sign(d) * n) \div g, d |-> Abs(d) \div g]
\* The sign of a float other than nan; a zero counts as positive.
FSign(x) == IF x.k = "inf" THEN x.s ELSE Sign(x.n)
IsZero(x) == x.k = "fin" /\ x.n = 0

FDiv(x, y) ==
    IF x.k = "nan" \/ y.k = "nan" THEN NaN
    ELSE IF x.k = "inf" THEN (IF y.k = "inf" THEN NaN ELSE Inf(x.s * FSign(y)))
    ELSE IF y.k = "inf" THEN Fin(0, 1)
    ELSE IF y.n = 0 THEN (IF x.n = 0 THEN NaN ELSE Inf(Sign(x.n)))
    ELSE Fin(x.n * y.d, x.d * y.n)

FMul(x, y) ==
    IF x.k = "nan" \/ y.k = "nan" THEN NaN
    ELSE IF x.k = "inf" \/ y.k = "inf"
         THEN (IF IsZero(x) \/ IsZero(y) THEN NaN ELSE Inf(FSign(x) * FSign(y)))
    ELSE Fin(x.n * y.n, x.d * y.d)

FAdd(x, y) ==
    IF x.k = "nan" \/ y.k = "nan" THEN NaN
    ELSE IF x.k = "inf" /\ y.k = "inf" THEN (IF x.s = y.s THEN x ELSE NaN)
    ELSE IF x.k = "inf" THEN x
    ELSE IF y.k = "inf" THEN y
    ELSE Fin(x.n * y.d + y.n * x.d, x.d * y.d)

FNeg(x) == IF x.k = "nan" THEN x
           ELSE IF x.k = "inf" THEN Inf(-x.s)
           ELSE Fin(-x.n, x.d)

\* sum_p_ij, sum_a (over the axis-0 sums) and sum_b (over the axis-1 sums).
SumSquares(cont) ==
    SeqSum([k \in 1..Cardinality(Rows(cont)) |->
       SeqSum([l \in 1..Cardinality(Cols(cont)) |->
                 cont[<<k - 1, l - 1>>] * cont[<<k - 1, l - 1>>]])])
SumSquaredColSums(cont) ==
    SeqSum([l \in 1..Cardinality(Cols(cont)) |->
              ColSum(cont, l - 1) * ColSum(cont, l - 1)])
SumSquaredRowSums(cont) ==
    SeqSum([k \in 1..Cardinality(Rows(cont)) |->
              RowSum(cont, k - 1) * RowSum(cont, k - 1)])

\* Mutant: a zero denominator is answered with the default 0.
compare_adapted_rand_error_default_on_zero(t, s) ==
    LET n == Len(s)
        p_ij == contingency_table(t, s)
        sum_p_ij == SumSquares(p_ij)
        sum_a == SumSquaredColSums(p_ij)
        sum_b == SumSquaredRowSums(p_ij)
        Safe(x, y) == IF IsZero(y) THEN Fin(0, 1) ELSE FDiv(x, y)
        precision == Safe(Fin(sum_p_ij - n, 1), Fin(sum_a - n, 1))
        recall == Safe(Fin(sum_p_ij - n, 1), Fin(sum_b - n, 1))
        fscore == Safe(FMul(FMul(Fin(2, 1), precision), recall),
                       FAdd(precision, recall))
    IN  [kind |-> "value", are |-> FAdd(Fin(1, 1), FNeg(fscore)),
         precision |-> precision, recall |-> recall]

\* The body after _assert_compatible, with segA = im_test = s and
\* segB = im_true = t; n is the size of the whole test field.
compare_adapted_rand_error(t, s) ==
    LET n == Len(s)
        p_ij == contingency_table(t, s)
        sum_p_ij == SumSquares(p_ij)
        sum_a == SumSquaredColSums(p_ij)
        sum_b == SumSquaredRowSums(p_ij)
        precision == FDiv(Fin(sum_p_ij - n, 1), Fin(sum_a - n, 1))
        recall == FDiv(Fin(sum_p_ij - n, 1), Fin(sum_b - n, 1))
        fscore == FDiv(FMul(FMul(Fin(2, 1), precision), recall),
                       FAdd(precision, recall))
    IN  [kind |-> "value", are |-> FAdd(Fin(1, 1), FNeg(fscore)),
         precision |-> precision, recall |-> recall]

CompareAdaptedRandError ==
    /\ pc = "start"
    /\ result' = IF assert_compatible(shape, shape_test)
                 THEN compare_adapted_rand_error(im_true, im_test)
                 ELSE [kind |-> "error"]
    /\ pc' = "compare_adapted_rand_error"
    /\ UNCHANGED <<im_true, im_test, shape, shape_test, label_field, arg>>

NextDegenerate == RandIndex \/ AdjRandIndex \/ CompareAdaptedRandError

\* The three Rand formulas that divide, on equal-shaped non-empty fields.
SpecDegenerate == Init /\ [][NextDegenerate]_vars

\* Largest number of positions of the fields of the adapted Rand error.
MaxAdaptedLen == 4

InitAdapted ==
    /\ \E n \in 1..MaxAdaptedLen :
          /\ shape = <<n>>
          /\ shape_test = <<n>>
          /\ im_true \in Fields(n, MaxLabel)
          /\ im_test \in Fields(n, MaxLabel)
    /\ label_field = None
    /\ arg = None
    /\ pc = "start"
    /\ result = None

NextAdapted == CompareAdaptedRandError

SpecAdapted == InitAdapted /\ [][NextAdapted]_vars

\* Pairs of valid positions, by direct enumeration.
AllPairsSameInBoth == \A pq \in Pairs : SameTest(pq) /\ SameTrue(pq)
AllPairsDifferInBoth == \A pq \in Pairs : ~SameTest(pq) /\ ~SameTrue(pq)
\* The squared sizes of the segments of a field x over the valid positions.
SumSquaredSizes(x) ==
    LET ls == SortedSeq({x[p] : p \in Valid})
    IN  SeqSum([k \in 1..Len(ls) |->
           Count({p \in Valid : x[p] = ls[k]}) * Count({p \in Valid : x[p] = ls[k]})])
Undefined(x) == x.k \in {"nan", "inf"}

InUnit(x) == x.k = "fin" /\ 0 <= x.n /\ x.n <= x.d

\* C19: when the denominators are non-zero, the precision and the recall of
\* compare_adapted_rand_error lie in [0, 1], and so does the error, also
\* when the fields contain background positions.
C19_AdaptedRandInUnitInterval ==
    (/\ pc = "compare_adapted_rand_error"
     /\ result.precision.k = "fin"
     /\ result.recall.k = "fin"
     /\ result.are.k = "fin") =>
        /\ InUnit(result.precision)
        /\ InUnit(result.recall)
        /\ InUnit(result.are)

\* The same without background: every position is counted in the table.
AdaptedRandInUnitIntervalWithoutBackground ==
    (/\ pc = "compare_adapted_rand_error"
     /\ Count(Valid) = Len(im_test)
     /\ result.precision.k = "fin"
     /\ result.recall.k = "fin"
     /\ result.are.k = "fin") =>
        /\ InUnit(result.precision)
        /\ InUnit(result.recall)
        /\ InUnit(result.are)

(***************************************************************************)
(* compare_rand_by_threshold(im_true, im_test, npoints), on                *)
(* one-dimensional fields.                                                 *)
(***************************************************************************)
\* Largest number of positions and largest value of the thresholded map.
MaxUcmLen == 4
MaxUcm == 3
\* Largest label of the ground truth the map is compared with.
MaxTruthLabel == 1
\* Largest npoints of a call.
MaxPoints == 4
\* npoints=None, the default: no budget of points is given.
NoPoints == 0

\* scipy.ndimage label(mask)[0] of a one-dimensional mask with the default
\* structure: the maximal runs of True are numbered 1, 2, ... from the left.
label(mask) ==
    [p \in DOMAIN mask |->
       IF ~mask[p] THEN 0
       ELSE Cardinality({q \in 1..p : mask[q] /\ (q = 1 \/ ~mask[q - 1])})]

\* ts = np.unique(im_test)[1:] drops the smallest value, whatever it is.
\* When len(ts) > 2 * npoints the index np.arange(1, len(ts), len(ts) / npoints)
\* is an array of floats (true division), and indexing ts with it raises
\* IndexError.  Otherwise every ts is thresholded, labelled and compared.
compare_rand_by_threshold(t, s, npoints) ==
    LET ts == Tail(unique(s))
        n == IF npoints = NoPoints THEN Len(ts) ELSE npoints
    IN  IF Len(ts) > 2 * n THEN [kind |-> "error"]
        ELSE LET seg(i) == label([p \in DOMAIN s |-> s[p] < ts[i]])
             IN  [kind |-> "value",
                  ris |-> << ts,
                             [i \in 1..Len(ts) |-> rand_index(seg(i), t)],
                             [i \in 1..Len(ts) |-> adj_rand_index(seg(i), t)] >>]

CompareRandByThreshold ==
    /\ pc = "start"
    /\ \E npoints \in {NoPoints} \cup (1..MaxPoints) :
          /\ arg' = npoints
          /\ result' = IF assert_compatible(shape, shape_test)
                       THEN compare_rand_by_threshold(im_true, im_test, npoints)
                       ELSE [kind |-> "error"]
    /\ pc' = "compare_rand_by_threshold"
    /\ UNCHANGED <<im_true, im_test, shape, shape_test, label_field>>

InitThreshold ==
    /\ \E n \in 1..MaxUcmLen :
          /\ shape = <<n>>
          /\ shape_test = <<n>>
          /\ im_true \in Fields(n, MaxTruthLabel)
          /\ im_test \in Fields(n, MaxUcm)
    /\ label_field = None
    /\ arg = None
    /\ pc = "start"
    /\ result = None

NextThreshold == CompareRandByThreshold

SpecThreshold == InitThreshold /\ [][NextThreshold]_vars

\* C16: when npoints is not given or exceeds the number of distinct non-zero
\* values of im_test, the threshold row is exactly the sorted distinct
\* non-zero values of im_test, whether or not im_test contains 0.
C16_AllThresholdsUsed ==
    (/\ pc = "compare_rand_by_threshold"
     /\ (arg = NoPoints \/ arg > Count(NonZeroLabels(im_test)))) =>
        /\ result.kind = "value"
        /\ result.ris[1] = SortedSeq(NonZeroLabels(im_test))

\* The same for the maps that contain 0, where it holds.
AllThresholdsUsedWhenZeroPresent ==
    (/\ pc = "compare_rand_by_threshold"
     /\ (arg = NoPoints \/ arg > Count(NonZeroLabels(im_test)))
     /\ \E p \in DOMAIN im_test : im_test[p] = 0) =>
        /\ result.kind = "value"
        /\ result.ris[1] = SortedSeq(NonZeroLabels(im_test))

\* C17: whenever npoints is smaller than the number of candidate thresholds,
\* the result has exactly npoints columns: shape (3, npoints).
C17_SubsampledToNpoints ==
    (/\ pc = "compare_rand_by_threshold"
     /\ arg # NoPoints
     /\ arg < Len(Tail(unique(im_test)))) =>
        /\ result.kind = "value"
        /\ Len(result.ris) = 3
        /\ \A row \in 1..3 : Len(result.ris[row]) = arg

\* What the code does with npoints below the number of candidates: all the
\* candidates up to 2 * npoints of them, and an error beyond.
SubsamplingAsComputed ==
    (/\ pc = "compare_rand_by_threshold"
     /\ arg # NoPoints
     /\ arg < Len(Tail(unique(im_test)))) =>
        IF Len(Tail(unique(im_test))) <= 2 * arg
        THEN result.kind = "value" /\ result.ris[1] = Tail(unique(im_test))
        ELSE result.kind = "error"

(***************************************************************************)
(* The five public entry points on fields of different shapes.             *)
(***************************************************************************)
InitShapes ==
    /\ \E s1 \in Shapes, s2 \in Shapes :
          /\ s1 # s2
          /\ shape = s1
          /\ shape_test = s2
          /\ im_true \in Fields(Size(s1), MaxLabel)
          /\ im_test \in Fields(Size(s2), MaxLabel)
    /\ label_field = None
    /\ arg = None
    /\ pc = "start"
    /\ result = None

NextShapes ==
    \/ CompareRawEditDistance
    \/ CompareAdaptedRandError
    \/ CompareRandByThreshold
    \/ CompareVi
    \/ CompareSplitVi

SpecShapes == InitShapes /\ [][NextShapes]_vars

\* C14: every public entry point, called with two fields of different
\* shapes, ends in an error and never returns a metric value.
C14_ShapeMismatchIsError ==
    (pc # "start" /\ shape # shape_test) => result.kind = "error"

\* The three entry points that call _assert_compatible do end in an error.
ShapeMismatchIsErrorWhereAsserted ==
    (/\ pc \in {"compare_raw_edit_distance", "compare_adapted_rand_error",
                "compare_rand_by_threshold"}
     /\ shape # shape_test) => result.kind = "error"

====
